---- MODULE Spec2Model ----
(***************************************************************************)
(* Model of src/utils/parse.py: extract_word_defs() and main().            *)
(*                                                                         *)
(* The routine is one sequential pass.  It is cut at the places where an   *)
(* exception can leave the try block, so that the order of the prints, of  *)
(* the file close and of the failures is visible in the state:             *)
(*   main -> open -> load -> with_exit -> values -> entries -> meanings    *)
(*        -> entry_done -> entries ... -> done | except -> done | crashed  *)
(* The content of the JSON file is the input.  The outcome of open() and   *)
(* of json.load() is drawn when the call is made; the values() iterator    *)
(* of the loaded document yields one entry value at a time, drawn from     *)
(* Entries when the loop asks for it.                                      *)
(*                                                                         *)
(* Text is a sequence of Unicode code points; a JSON value is a record     *)
(* with a tag t.  Of a JSON object only the keys the code reads are kept.  *)
(***************************************************************************)
EXTENDS Integers, Sequences, FiniteSets

VARIABLES pc, f, data, ei, entry, mi, out, src, results, returned, exc, failure

vars == <<pc, f, data, ei, entry, mi, out, src, results, returned, exc, failure>>

\* Bounds of the model: entries yielded by data.values(), and meanings in one
\* "meanings" array.
MaxEntries == 2
MaxMeanings == 2

(***************************************************************************)
(* JSON values as json.load returns them.                                  *)
(***************************************************************************)
Absent == [t |-> "absent"]
None == [t |-> "null"]
Str(s) == [t |-> "str", s |-> s]
Num(n) == [t |-> "num", n |-> n]
Arr(items) == [t |-> "arr", items |-> items]
Meaning(d) == [t |-> "obj", def |-> d]
Entry(w, m) == [t |-> "obj", word |-> w, meanings |-> m]

\* "C\u0130t" (capital I with dot above, whose lower case is the two characters
\* "i" and combining dot above)
WordTexts == {<<67, 304, 116>>}
\* "aB" and "\u00DFa" (sharp s, whose upper case is the two characters "SS")
DefTexts == {<<97, 66>>, <<223, 97>>}

WordValues == {Absent, None, Str(<<>>), Num(5)} \cup {Str(w) : w \in WordTexts}
DefValues == {Absent, None, Str(<<>>), Num(5)} \cup {Str(d) : d \in DefTexts}
MeaningValues == {Num(5)} \cup {Meaning(d) : d \in DefValues}

SeqsUpTo(S, n) == UNION {[1..k -> S] : k \in 0..n}

MeaningsValues ==
    {Absent, None, Num(5), Str(<<120>>)}
        \cup {Arr(items) : items \in SeqsUpTo(MeaningValues, MaxMeanings)}

Entries == {Num(5)} \cup {Entry(w, m) : w \in WordValues, m \in MeaningsValues}

\* Top-level values of a syntactically valid document.
DataValues == {"object", "array", "null"}

(***************************************************************************)
(* Python semantics used by the routine.                                   *)
(***************************************************************************)
\* bool(v)
Truthy(v) ==
    CASE v.t = "null" -> FALSE
      [] v.t = "str" -> v.s # <<>>
      [] v.t = "num" -> v.n # 0
      [] v.t = "arr" -> v.items # <<>>
      [] v.t = "obj" -> TRUE

\* Only a dict has .get and .values
HasGet(v) == v.t = "obj"

\* d.get(key) / d.get(key, default) on the field already selected
Get(field, default) == IF field.t = "absent" THEN default ELSE field

\* iter(v) succeeds
Iterable(v) == v.t \in {"arr", "str"}

\* the items iter(v) yields: the elements of a list, the characters of a str
Items(v) ==
    IF v.t = "arr" THEN v.items ELSE [i \in 1..Len(v.s) |-> Str(<<v.s[i]>>)]

\* str.lower() / str.upper() of one code point
LowerChar(c) ==
    IF c \in 65..90 THEN <<c + 32>>
    ELSE IF c = 304 THEN <<105, 775>>
    ELSE <<c>>

UpperChar(c) ==
    IF c \in 97..122 THEN <<c - 32>>
    ELSE IF c = 223 THEN <<83, 83>>
    ELSE <<c>>

RECURSIVE Lower(_)
Lower(s) == IF s = <<>> THEN <<>> ELSE LowerChar(Head(s)) \o Lower(Tail(s))

RECURSIVE Upper(_)
Upper(s) == IF s = <<>> THEN <<>> ELSE UpperChar(Head(s)) \o Upper(Tail(s))

\* variant: str.capitalize(), which also lower-cases the rest
PyCapitalize(d) == Upper(<<Head(d)>>) \o Lower(Tail(d))

\* definition[0].upper() + definition[1:]
Capitalized(d) == Upper(<<Head(d)>>) \o Tail(d)

\* f"{word.lower()}|{...}"
FormatLine(w, d) == Lower(w) \o <<124>> \o Capitalized(d)

DataLine(text) == [kind |-> "data", text |-> text, msg |-> "None"]
\* f"Error processing file: {str(e)}"
DiagLine(e) == [kind |-> "diag", text |-> <<>>, msg |-> e]

\* variant: a handler `except (OSError, ValueError)`
OnlyIOAndValueErrors == {"OSError", "UnicodeDecodeError", "JSONDecodeError"}

\* `except Exception` of line 25 catches every class raised here
ExceptionClasses ==
    {"OSError", "UnicodeDecodeError", "JSONDecodeError", "RecursionError",
     "AttributeError", "TypeError"}

\* variant: a try block that ends after the load
NarrowTry(site) == site \in {"open", "load"}

\* the try block spans lines 8-23: every site is inside it
InsideTry(site) == site \in {"open", "load", "traverse"}

(***************************************************************************)
(* Locals of the routine, read from the entry the loop holds.              *)
(***************************************************************************)
word == Get(entry.word, None)
meanings == Get(entry.meanings, Arr(<<>>))

(***************************************************************************)
(* Initial state: the interpreter is about to run main().                  *)
(***************************************************************************)
Init ==
    /\ pc = "main"
    /\ f = "none"
    /\ data = "unset"
    /\ ei = 0
    /\ entry = None
    /\ mi = 0
    /\ out = <<>>
    /\ src = <<>>
    /\ results = <<>>
    /\ returned = <<>>
    /\ exc = "None"
    /\ failure = "none"

(***************************************************************************)
(* Raising and leaving the routine.                                        *)
(***************************************************************************)
\* an exception of class e raised at site: the handler of line 25 takes it
\* when the site is inside the try block and the class is caught; otherwise
\* it leaves extract_word_defs and main
Dispatch(e, site) == IF InsideTry(site) /\ e \in ExceptionClasses THEN "except" ELSE "crashed"

Raise(e, site) ==
    /\ exc' = e
    /\ failure' = site
    /\ pc' = Dispatch(e, site)

NoRaise == UNCHANGED <<exc, failure>>

\* variant: open() and close() without with or finally
OpenUntilNormalExit(e) == IF e = "None" THEN "closed" ELSE "open"

\* the state of f when the with block is left, normally or by an exception
FileAfterWith(e) == "closed"

\* variant: a handler that prints nothing
HandlerSilent(o, e) == o

\* the print of line 26
HandlerOutput(o, e) == Append(o, DiagLine(e))

\* variant: `if word or meanings`
GateOr(w, m) == Truthy(w) \/ Truthy(m)

\* `if word and meanings` of line 17
Gate(w, m) == Truthy(w) /\ Truthy(m)

\* variant: the inner loop is left after the meaning it has visited
BreakLoop(i, n) == "entry_done"

\* where the inner loop goes after the meaning at position i of n
NextInLoop(i, n) == IF i = n THEN "entry_done" ELSE "meanings"

\* variant: the line is also appended to results
PrintLineCollect(line) ==
    /\ out' = Append(out, DataLine(line))
    /\ src' = Append(src, <<ei, mi + 1>>)
    /\ results' = Append(results, line)

\* variant: a line already printed is not printed again
PrintLineOnce(line) ==
    /\ out' = IF \E k \in 1..Len(out) : out[k].text = line THEN out ELSE Append(out, DataLine(line))
    /\ src' = IF \E k \in 1..Len(out) : out[k].text = line THEN src ELSE Append(src, <<ei, mi + 1>>)
    /\ results' = results

\* variant: the line is put before the lines already printed
PrintLineFirst(line) ==
    /\ out' = <<DataLine(line)>> \o out
    /\ src' = Append(src, <<ei, mi + 1>>)
    /\ results' = results

\* the print of line 21; results is not touched.  src records, for each data
\* line, the (entry, meaning) position that printed it
PrintLine(line) ==
    /\ out' = Append(out, DataLine(line))
    /\ src' = Append(src, <<ei, mi + 1>>)
    /\ results' = results

(***************************************************************************)
(* The steps.                                                              *)
(***************************************************************************)
\* lines 30-31: main() calls extract_word_defs with the fixed path
Main ==
    /\ pc = "main"
    /\ pc' = "open"
    /\ UNCHANGED <<f, data, ei, entry, mi, out, src, results, returned, exc, failure>>

\* line 8: open(json_file, "r", encoding="utf-8")
OpenOk ==
    /\ pc = "open"
    /\ f' = "open"
    /\ pc' = "load"
    /\ UNCHANGED <<data, ei, entry, mi, out, src, results, returned, exc, failure>>

OpenFails ==
    /\ pc = "open"
    /\ Raise("OSError", "open")
    /\ UNCHANGED <<f, data, ei, entry, mi, out, src, results, returned>>

\* line 9: json.load(f) reads, decodes and parses the whole file
LoadOk ==
    /\ pc = "load"
    /\ \E d \in DataValues : data' = d
    /\ pc' = "with_exit"
    /\ UNCHANGED <<f, ei, entry, mi, out, src, results, returned, exc, failure>>

LoadFails ==
    /\ pc = "load"
    /\ \E e \in {"OSError", "UnicodeDecodeError", "JSONDecodeError", "RecursionError"} :
          /\ exc' = e
          /\ failure' = "load"
    /\ pc' = "with_exit"
    /\ UNCHANGED <<f, data, ei, entry, mi, out, src, results, returned>>

\* lines 8-9: leaving the with block closes f, then control goes on to
\* line 11 or to where the pending exception is dispatched
WithExit ==
    /\ pc = "with_exit"
    /\ f' = FileAfterWith(exc)
    /\ pc' = IF exc = "None" THEN "values" ELSE Dispatch(exc, failure)
    /\ UNCHANGED <<data, ei, entry, mi, out, src, results, returned, exc, failure>>

\* lines 11-13: results = [] and the call data.values()
Values ==
    /\ pc = "values"
    /\ IF data = "object"
          THEN /\ pc' = "entries"
               /\ NoRaise
          ELSE Raise("AttributeError", "traverse")
    /\ UNCHANGED <<f, data, ei, entry, mi, out, src, results, returned>>

\* lines 13-17: the iterator yields the next entry; word and meanings are
\* read and the entry passes the gate or is skipped
NextEntry ==
    /\ pc = "entries"
    /\ ei < MaxEntries
    /\ \E e \in Entries :
          /\ entry' = e
          /\ ei' = ei + 1
          /\ mi' = 0
          /\ IF ~HasGet(e)
                THEN Raise("AttributeError", "traverse")
                ELSE LET w == Get(e.word, None)
                         m == Get(e.meanings, Arr(<<>>))
                     IN  IF Gate(w, m)
                            THEN IF Iterable(m)
                                    THEN /\ pc' = "meanings"
                                         /\ NoRaise
                                    ELSE Raise("TypeError", "traverse")
                            ELSE /\ pc' = "entry_done"
                                 /\ NoRaise
    /\ UNCHANGED <<f, data, out, src, results, returned>>

\* lines 18-21: the next meaning of the entry
VisitMeaning ==
    /\ pc = "meanings"
    /\ LET items == Items(meanings)
           meaning == items[mi + 1]
       IN  /\ mi' = mi + 1
           /\ IF ~HasGet(meaning)
                 THEN /\ Raise("AttributeError", "traverse")
                      /\ UNCHANGED <<out, src, results>>
                 ELSE LET definition == Get(meaning.def, None)
                      IN  IF ~Truthy(definition)
                             THEN /\ pc' = NextInLoop(mi + 1, Len(items))
                                  /\ NoRaise
                                  /\ UNCHANGED <<out, src, results>>
                             ELSE IF word.t # "str"
                                     THEN /\ Raise("AttributeError", "traverse")
                                          /\ UNCHANGED <<out, src, results>>
                                     ELSE IF definition.t # "str"
                                             THEN /\ Raise("TypeError", "traverse")
                                                  /\ UNCHANGED <<out, src, results>>
                                             ELSE /\ PrintLine(FormatLine(word.s, definition.s))
                                                  /\ pc' = NextInLoop(mi + 1, Len(items))
                                                  /\ NoRaise
    /\ UNCHANGED <<f, data, ei, entry, returned>>

\* the body of the outer loop is finished and control goes back to line 13.
\* entry and mi are dead from here on (each is assigned before it is read
\* again), so they are reset
EndEntry ==
    /\ pc = "entry_done"
    /\ pc' = "entries"
    /\ entry' = None
    /\ mi' = 0
    /\ UNCHANGED <<f, data, ei, out, src, results, returned, exc, failure>>

\* line 13 exhausted, line 23: return results
Return ==
    /\ pc = "entries"
    /\ returned' = results
    /\ pc' = "done"
    /\ UNCHANGED <<f, data, ei, entry, mi, out, src, results, exc, failure>>

\* lines 25-27: print the diagnostic and return a new empty list
Except ==
    /\ pc = "except"
    /\ out' = HandlerOutput(out, exc)
    /\ returned' = <<>>
    /\ exc' = "None"
    /\ pc' = "done"
    /\ UNCHANGED <<f, data, ei, entry, mi, src, results, failure>>

Next ==
    \/ Main
    \/ OpenOk
    \/ OpenFails
    \/ LoadOk
    \/ LoadFails
    \/ WithExit
    \/ Values
    \/ NextEntry
    \/ VisitMeaning
    \/ EndEntry
    \/ Return
    \/ Except

Spec == Init /\ [][Next]_vars

(***************************************************************************)
(* Vocabulary of the properties.                                           *)
(***************************************************************************)
Finished == pc \in {"done", "crashed"}
Failed == failure # "none"

\* the entry the outer loop holds
EntryIsObject == ei >= 1 /\ entry.t = "obj"

\* word absent, null or ""
FalsyWord(e) == e.word.t \in {"absent", "null"} \/ e.word = Str(<<>>)
\* meanings absent or []
NoMeanings(e) == e.meanings.t = "absent" \/ e.meanings = Arr(<<>>)
\* def absent, null or ""
FalsyDef(m) == m.t = "obj" /\ (m.def.t \in {"absent", "null"} \/ m.def = Str(<<>>))
\* def a non-empty string
NonEmptyDef(m) == m.t = "obj" /\ m.def.t = "str" /\ m.def.s # <<>>

\* an entry of the shape the data model describes
WellFormedEntry(e) ==
    /\ e.t = "obj"
    /\ e.word.t \in {"absent", "null", "str"}
    /\ \/ e.meanings.t = "absent"
       \/ /\ e.meanings.t = "arr"
          /\ \A i \in 1..Len(e.meanings.items) :
                /\ e.meanings.items[i].t = "obj"
                /\ e.meanings.items[i].def.t \in {"absent", "null", "str"}

\* positions in out of the data lines of the current entry
LinesOfEntry == {k \in 1..Len(src) : src[k][1] = ei}
\* meanings of the current entry that have a line
PrintedMeanings == {src[k][2] : k \in LinesOfEntry}
\* meanings of entry e with a non-empty def
NonEmptyDefs(e) ==
    IF e.meanings.t = "arr"
       THEN {i \in 1..Len(e.meanings.items) : NonEmptyDef(e.meanings.items[i])}
       ELSE {}

IsPrefix(s, t) == Len(s) <= Len(t) /\ SubSeq(t, 1, Len(s)) = s

DataLines == {k \in 1..Len(out) : out[k].kind = "data"}
DiagLines == {k \in 1..Len(out) : out[k].kind = "diag"}

(***************************************************************************)
(* C1.  As claimed: a run that ends in a failure of any kind has printed   *)
(* exactly one diagnostic line and no data line.                           *)
(***************************************************************************)
C1_NoDataLineOnFailure ==
    (Finished /\ Failed) => (Cardinality(DiagLines) = 1 /\ DataLines = {})

\* C1, amended: a run that ends in a failure has printed exactly one
\* diagnostic line, and it is the last line; the lines before it are the data
\* lines of the pairs visited before the failure, and there is none when the
\* failure is met before the first entry is read (open, read, decode, parse,
\* or a top-level value that is not a mapping).
C1_OneDiagnosticLast ==
    (Finished /\ Failed) =>
        /\ Len(out) = Len(src) + 1
        /\ out[Len(out)].kind = "diag"
        /\ \A k \in 1..Len(src) : out[k].kind = "data"
        /\ (failure \in {"open", "load"} \/ data # "object") => Len(out) = 1

C1_Witness ==
    /\ pc = "done"
    /\ failure = "traverse"
    /\ Len(out) >= 2
    /\ out[1].kind = "data"
    /\ out[Len(out)].kind = "diag"

(***************************************************************************)
(* C2.  When the file cannot be opened or its content does not load, the   *)
(* run prints exactly one diagnostic line and no data line, and the        *)
(* failure precedes the traversal: no document is held, no entry was read. *)
(***************************************************************************)
C2_LoadFailureOutput ==
    (pc = "done" /\ failure \in {"open", "load"}) =>
        /\ Len(out) = 1
        /\ out[1].kind = "diag"
        /\ out[1].msg \in {"OSError", "UnicodeDecodeError", "JSONDecodeError", "RecursionError"}
        /\ data = "unset"
        /\ ei = 0

C2_Witness ==
    /\ pc = "done"
    /\ failure = "load"
    /\ out = <<DiagLine("JSONDecodeError")>>

(***************************************************************************)
(* C3.  No failure leaves extract_word_defs: the routine never ends by an  *)
(* exception, and a failed run has printed its diagnostic and returned an  *)
(* empty list with no exception pending.                                   *)
(***************************************************************************)
C3_NoPropagation ==
    /\ pc # "crashed"
    /\ (pc = "done" /\ Failed) =>
          /\ exc = "None"
          /\ returned = <<>>
          /\ Cardinality(DiagLines) = 1

C3_Witness ==
    /\ pc = "done"
    /\ failure = "traverse"
    /\ ei = 2
    /\ mi = 2
    /\ returned = <<>>

(***************************************************************************)
(* C4.  The results list is empty in every state and the value returned is *)
(* empty, however many data lines were printed.                            *)
(***************************************************************************)
C4_EmptyResult ==
    /\ results = <<>>
    /\ pc = "done" => returned = <<>>

C4_Witness ==
    /\ pc = "done"
    /\ ~Failed
    /\ Cardinality(DataLines) >= 2
    /\ returned = <<>>

(***************************************************************************)
(* C5.  An entry whose word is absent, null or "" or whose meanings is     *)
(* absent or [] is skipped: once it is read, whatever its other field      *)
(* holds, no meaning of it is visited, it has no line, nothing is raised   *)
(* and control is at the end of the loop body, on its way to the next      *)
(* entry.                                                                  *)
(***************************************************************************)
C5_SkipEntry ==
    (EntryIsObject /\ (FalsyWord(entry) \/ NoMeanings(entry))) =>
        /\ pc = "entry_done"
        /\ mi = 0
        /\ LinesOfEntry = {}
        /\ ~Failed

C5_Witness ==
    /\ pc = "entry_done"
    /\ ei = 2
    /\ src = <<<<1, 1>>>>
    /\ EntryIsObject
    /\ entry.word = Str(<<>>)
    /\ entry.meanings.t = "arr"
    /\ NonEmptyDefs(entry) = {1, 2}
    /\ Len(out) = 1

(***************************************************************************)
(* C6.  In an entry that passed the gate, a meaning whose def is absent,   *)
(* null or "" has no line and does not stop the inner loop: it raises      *)
(* nothing, every meaning visited so far whose def is a non-empty string   *)
(* has its line, and the loop body ends only after the last meaning.       *)
(***************************************************************************)
C6_SkipDefOnly ==
    /\ (EntryIsObject /\ pc \in {"meanings", "entry_done"} /\ ~Failed /\ mi >= 1) =>
          /\ \A m \in 1..mi :
                /\ FalsyDef(Items(meanings)[m]) => m \notin PrintedMeanings
                /\ NonEmptyDef(Items(meanings)[m]) => m \in PrintedMeanings
          /\ pc = "entry_done" => mi = Len(Items(meanings))
    /\ (EntryIsObject /\ Failed /\ mi >= 1) => ~FalsyDef(Items(meanings)[mi])

C6_Witness ==
    /\ pc = "entry_done"
    /\ ~Failed
    /\ mi = 2
    /\ FalsyDef(Items(meanings)[1])
    /\ PrintedMeanings = {2}

(***************************************************************************)
(* C7.  As claimed: for every well-formed entry, the number of its output  *)
(* lines is the number of its meanings whose def is non-empty.             *)
(***************************************************************************)
C7_CardinalityAnyEntry ==
    (pc = "entry_done" /\ WellFormedEntry(entry) /\ ~Failed) =>
        Cardinality(LinesOfEntry) = Cardinality(NonEmptyDefs(entry))

\* C7, amended: for every well-formed entry whose word is non-empty, the
\* number of its output lines is the number of its meanings whose def is
\* non-empty (an entry whose word is absent, null or "" has no line).
C7_CardinalityWithWord ==
    (pc = "entry_done" /\ WellFormedEntry(entry) /\ ~Failed /\ ~FalsyWord(entry)) =>
        Cardinality(LinesOfEntry) = Cardinality(NonEmptyDefs(entry))

C7_Witness ==
    /\ pc = "entry_done"
    /\ WellFormedEntry(entry)
    /\ ~FalsyWord(entry)
    /\ Len(Items(meanings)) = 2
    /\ Cardinality(NonEmptyDefs(entry)) = 1
    /\ Cardinality(LinesOfEntry) = 1

(***************************************************************************)
(* C8.  Every data line of the current entry is the lower-cased word, the  *)
(* character "|", the upper case of the first character of the definition  *)
(* and then the rest of the definition unchanged.                          *)
(***************************************************************************)
C8_CaseNormalization ==
    EntryIsObject =>
        \A k \in LinesOfEntry :
            LET w == entry.word.s
                d == Items(meanings)[src[k][2]].def.s
                t == out[k].text
                n == Len(Lower(w))
                u == Len(UpperChar(d[1]))
            IN  /\ out[k].kind = "data"
                /\ Len(t) = n + 1 + u + Len(d) - 1
                /\ SubSeq(t, 1, n) = Lower(w)
                /\ t[n + 1] = 124
                /\ SubSeq(t, n + 2, n + 1 + u) = UpperChar(d[1])
                /\ SubSeq(t, n + 2 + u, Len(t)) = SubSeq(d, 2, Len(d))

C8_Witness ==
    /\ Len(out) = 2
    /\ out[1].text = <<99, 105, 775, 116, 124, 65, 66>>
    /\ out[2].text = <<99, 105, 775, 116, 124, 83, 83, 97>>

(***************************************************************************)
(* C9.  Output follows the traversal: a print adds one line at the end and *)
(* changes no earlier line; the pairs that have a line are in increasing   *)
(* (entry, meaning) order with no repetition; the k-th line is the line of *)
(* the k-th such pair; and when an entry has been traversed, the meanings  *)
(* with a line are exactly its qualifying ones.                            *)
(***************************************************************************)
C9_OrderState ==
    /\ \A j, k \in 1..Len(src) :
          j < k => \/ src[j][1] < src[k][1]
                   \/ src[j][1] = src[k][1] /\ src[j][2] < src[k][2]
    /\ Len(src) <= Len(out)
    /\ EntryIsObject =>
          \A k \in LinesOfEntry :
              /\ out[k].kind = "data"
              /\ out[k].text =
                    FormatLine(entry.word.s, Items(meanings)[src[k][2]].def.s)
    /\ (pc = "entry_done" /\ ~Failed /\ mi >= 1) => PrintedMeanings = NonEmptyDefs(entry)

C9_TraversalOrder ==
    /\ []C9_OrderState
    /\ [][IsPrefix(out, out') /\ Len(out') <= Len(out) + 1]_vars

C9_Witness ==
    /\ pc = "done"
    /\ ~Failed
    /\ src = <<<<1, 1>>, <<1, 2>>, <<2, 2>>>>
    /\ out[1].text # out[2].text
    /\ out[3].text # out[2].text

(***************************************************************************)
(* C10.  The file is open only between open() and the end of the with      *)
(* block: it is not open during the traversal, in the handler or at any    *)
(* exit, and nothing is printed and no entry is read while it is open.     *)
(***************************************************************************)
C10_FileScope ==
    /\ f = "open" => (pc \in {"load", "with_exit"} /\ out = <<>> /\ ei = 0)
    /\ pc \in {"values", "entries", "meanings", "entry_done", "except", "done", "crashed"} =>
          f \in {"none", "closed"}
    /\ (pc = "values" \/ ei >= 1) => f = "closed"

C10_Witness ==
    /\ pc = "done"
    /\ f = "closed"
    /\ failure = "load"

====
